---------------------------- MODULE Spec2Model ----------------------------
(***************************************************************************)
(* A model of gen_spectrograms.ipynb: the spectrogram renderer             *)
(* save_spectrogram_image, the clip discovery and storage reset of the     *)
(* corpus scanner, the rendering loop of cell 8 and the train/test         *)
(* splitter generate_training_and_testing_datasets with its call in cell   *)
(* 12.                                                                     *)
(*                                                                         *)
(* Python floats are IEEE-754 doubles.  Where the code divides and         *)
(* multiplies floats and then truncates or rounds (the figure size, the    *)
(* split count) the model computes the same doubles, bit for bit, on       *)
(* vectors of 53 mantissa bits.                                            *)
(***************************************************************************)
EXTENDS Integers, Sequences, FiniteSets, TLC

(***************************************************************************)
(* IEEE-754 double arithmetic on small operands.  A double is              *)
(* [m |-> <<b1..b53>>, e |-> k] with value m * 2^k, b1 = 1 unless it is 0.  *)
(* Every operator is written without deep recursion.                       *)
(***************************************************************************)
MantissaBits == 53

LimbBits == 14

Zeros(n) == [i \in 1..n |-> 0]

IntBits(n, w) == [i \in 1..w |-> (n \div 2^(w - i)) % 2]

RECURSIVE BitsToInt(_)
BitsToInt(b) ==
    IF Len(b) = 0 THEN 0
    ELSE IF Len(b) = 1 THEN b[1]
    ELSE LET h == Len(b) \div 2
         IN  BitsToInt(SubSeq(b, 1, h)) * 2^(Len(b) - h)
               + BitsToInt(SubSeq(b, h + 1, Len(b)))

BitLen(n) == IF n = 0 THEN 0 ELSE CHOOSE l \in 1..30 : 2^(l - 1) <= n /\ n < 2^l

AnyOne(b) == \E i \in 1..Len(b) : b[i] = 1

FZero == [m |-> Zeros(MantissaBits), e |-> 0]

IsZero(x) == ~AnyOne(x.m)

\* b + 1 on a bit vector; one bit longer when every bit of b is set.
IncBits(b) ==
    IF \A i \in 1..Len(b) : b[i] = 1 THEN <<1>> \o Zeros(Len(b))
    ELSE LET p == CHOOSE i \in 1..Len(b) :
                      b[i] = 0 /\ \A j \in (i + 1)..Len(b) : b[j] = 1
         IN  [i \in 1..Len(b) |-> IF i < p THEN b[i] ELSE IF i = p THEN 1 ELSE 0]

\* The double nearest to bits * 2^e, ties to the even mantissa.
RoundToDouble(bits, e) ==
    IF ~AnyOne(bits) THEN FZero
    ELSE LET p   == CHOOSE i \in 1..Len(bits) :
                        bits[i] = 1 /\ \A j \in 1..(i - 1) : bits[j] = 0
             sig == SubSeq(bits, p, Len(bits))
             n   == Len(sig)
         IN  IF n <= MantissaBits
             THEN [m |-> sig \o Zeros(MantissaBits - n), e |-> e - (MantissaBits - n)]
             ELSE LET keep == SubSeq(sig, 1, MantissaBits)
                      drop == SubSeq(sig, MantissaBits + 1, n)
                      up   == drop[1] = 1
                                /\ (AnyOne(Tail(drop)) \/ keep[MantissaBits] = 1)
                      r    == IF up THEN IncBits(keep) ELSE keep
                  IN  [m |-> SubSeq(r, 1, MantissaBits),
                       e |-> e + (n - MantissaBits) + (Len(r) - MantissaBits)]

\* 2^i mod b for i < 6 * LimbBits, without a number above 2^30.
Pow2Mod(i, b) ==
    LET p1 == 2^LimbBits % b
        p2 == (p1 * p1) % b
        p3 == (p2 * p1) % b
        p4 == (p2 * p2) % b
        p5 == (p4 * p1) % b
        k  == i \div LimbBits
        hi == CASE k = 0 -> 1 % b [] k = 1 -> p1 [] k = 2 -> p2
                [] k = 3 -> p3 [] k = 4 -> p4 [] OTHER -> p5
    IN  (hi * (2^(i % LimbBits) % b)) % b

\* float(a) / float(b) for integers 0 <= a, 0 < b, both below 2^15: the first
\* 55 significant bits of the quotient by long division, a sticky bit for the
\* remainder, rounded to nearest-even.
FDiv(a, b) ==
    IF a = 0 THEN FZero
    ELSE LET q0   == a \div b
             r0   == a % b
             Rem(i)  == (r0 * Pow2Mod(i, b)) % b
             Frac(i) == IF 2 * Rem(i - 1) >= b THEN 1 ELSE 0
             l0   == BitLen(q0)
             z    == IF q0 > 0 \/ r0 = 0 THEN 0
                     ELSE (CHOOSE i \in 1..16 :
                               Frac(i) = 1 /\ \A j \in 1..(i - 1) : Frac(j) = 0) - 1
             n    == MantissaBits + 2
             used == IF q0 > 0 THEN n - l0 ELSE z + n
             ib   == IntBits(q0, l0)
             bits == [j \in 1..n |->
                         IF q0 > 0 THEN (IF j <= l0 THEN ib[j] ELSE Frac(j - l0))
                         ELSE Frac(z + j)]
             st   == IF Rem(used) = 0 THEN 0 ELSE 1
         IN  RoundToDouble(bits \o <<st>>, -(used + 1))

\* x * float(n) for an integer 0 <= n < 2^15: the exact product, limb by limb,
\* rounded to nearest-even.
FMulInt(x, n) ==
    LET pad == Zeros(4 * LimbBits - MantissaBits) \o x.m
        L(k) == BitsToInt(SubSeq(pad, (k - 1) * LimbBits + 1, k * LimbBits))
        B   == 2^LimbBits
        t4  == L(4) * n
        t3  == L(3) * n + t4 \div B
        t2  == L(2) * n + t3 \div B
        t1  == L(1) * n + t2 \div B
        prod == IntBits(t1 \div B, LimbBits + 2) \o IntBits(t1 % B, LimbBits)
                  \o IntBits(t2 % B, LimbBits) \o IntBits(t3 % B, LimbBits)
                  \o IntBits(t4 % B, LimbBits)
    IN  RoundToDouble(prod, x.e)

\* 1 - x for a double 0 <= x <= 1: the exact difference 2^k - m by two's
\* complement, rounded to nearest-even.
FOneMinus(x) ==
    IF IsZero(x) THEN RoundToDouble(<<1>>, 0)
    ELSE IF -x.e < MantissaBits THEN FZero
    ELSE LET k   == -x.e
             pad == Zeros(k - MantissaBits) \o x.m
             neg == IncBits([i \in 1..k |-> 1 - pad[i]])
         IN  RoundToDouble(neg, x.e)

\* int(x) for a double 0 <= x < 2^30: truncation.
FInt(x) ==
    IF IsZero(x) \/ -x.e >= MantissaBits THEN 0
    ELSE IF x.e >= 0 THEN BitsToInt(x.m) * 2^x.e
    ELSE BitsToInt(SubSeq(x.m, 1, MantissaBits + x.e))

\* np.round(x) for a double 0 <= x < 2^30: to the nearest integer, a half to
\* the even one.
FRint(x) ==
    IF IsZero(x) \/ x.e >= 0 THEN FInt(x)
    ELSE LET k  == -x.e
             fr == IF k >= MantissaBits THEN Zeros(k - MantissaBits) \o x.m
                   ELSE SubSeq(x.m, MantissaBits - k + 1, MantissaBits)
             ip == FInt(x)
         IN  IF fr[1] = 1 /\ (AnyOne(Tail(fr)) \/ ip % 2 = 1) THEN ip + 1 ELSE ip

(***************************************************************************)
(* Cell 4: the configuration block.  A value that may be a function or a   *)
(* number (REF, CLIM_LO, CLIM_HI) is the text of the Python expression.    *)
(***************************************************************************)
SPECIES == <<"common", "bottlenose", "melon-headed">>

SAMPLING_RATE == 48000

FFT_NUM == 512

DPI == 96

MAX_FREQ == 22000

MIN_FREQ == 3000

IMAGE_SIZE == <<413, 202>>

REF == "np.max"

CLIM_LO == "np.mean"

CLIM_HI == "0"

\* The block as the notebook ships it.
Cell4 ==
    [SAMPLING_RATE |-> SAMPLING_RATE, FFT_NUM |-> FFT_NUM, DPI |-> DPI,
     MAX_FREQ |-> MAX_FREQ, MIN_FREQ |-> MIN_FREQ, IMAGE_SIZE |-> IMAGE_SIZE,
     REF |-> REF, CLIM_LO |-> CLIM_LO, CLIM_HI |-> CLIM_HI]

(***************************************************************************)
(* save_spectrogram_image                                                  *)
(***************************************************************************)
Min(a, b) == IF a <= b THEN a ELSE b

Max(a, b) == IF a >= b THEN a ELSE b

callable(v) == v \in {"np.max", "np.mean", "np.min", "np.median"}

\* The quotient rounded to the nearest bin, as round() would give it.
FreqBinNearest(freq, sampling_rate, n_fft) ==
    (2 * freq * n_fft + sampling_rate) \div (2 * sampling_rate)

\* int(freq / f_step) with f_step = sampling_rate / n_fft: Python's int()
\* truncates toward zero.  n_fft is a power of two, so f_step is an exact
\* double and the rounded quotient lies on the same side of every integer
\* as freq * n_fft / sampling_rate.
FreqBin(freq, sampling_rate, n_fft) ==
    IF freq >= 0 THEN (freq * n_fft) \div sampling_rate
    ELSE -((-freq * n_fft) \div sampling_rate)

\* librosa.stft returns 1 + n_fft // 2 frequency rows.
StftRows(n_fft) == 1 + n_fft \div 2

\* One bound of a Python slice over n rows: a negative index counts from the
\* end, and every index is clamped into 0..n.
SliceIndex(i, n) == IF i < 0 THEN Max(i + n, 0) ELSE Min(i, n)

\* Y[min_bin:max_bin, :] : the first row kept and the number of rows kept.
Crop(min_bin, max_bin, n) ==
    [first |-> SliceIndex(min_bin, n),
     rows  |-> Max(SliceIndex(max_bin, n) - SliceIndex(min_bin, n), 0)]

\* amplitude_to_db as it would be with top_db = None: only the reduction of
\* a callable ref raises.
AmplitudeToDbRaisesRefOnly(rows, ref) == rows = 0 /\ callable(ref)

\* librosa.amplitude_to_db on a matrix of `rows' rows: a callable ref is
\* reduced over the matrix, and the default top_db = 80 clips against the
\* matrix's maximum; numpy raises ValueError for either on an empty matrix.
AmplitudeToDbRaises(rows, ref) == rows = 0

\* clim_lo(Ydb) if callable(clim_lo) else clim_lo
ResolveClim(v) == IF callable(v) THEN <<v, "Ydb">> ELSE <<v>>

\* plt.figure(figsize=(w / dpi, h / dpi), dpi=dpi) and fig.savefig: the Agg
\* canvas is int(figsize * dpi) pixels along each axis.
FigurePixels(img_size, dpi) ==
    <<FInt(FMulInt(FDiv(img_size[1], dpi), dpi)),
      FInt(FMulInt(FDiv(img_size[2], dpi), dpi))>>

\* os.path.join(output_path, str(image_name) + ".png")
SavePath(output_path, image_name) == <<output_path, image_name>>

\* Lines 129-141: the crop of the transform, and whether amplitude_to_db
\* raises on it.
CroppedTransform(a) ==
    Crop(FreqBin(a.min_freq, a.sampling_rate, a.n_fft),
         FreqBin(a.max_freq, a.sampling_rate, a.n_fft), StftRows(a.n_fft))

SaveRaises(a) == AmplitudeToDbRaises(CroppedTransform(a).rows, a.ref)

\* The whole call: what it computes, whether it raises, and the image it
\* writes (none when it raises: the exception leaves before fig.savefig).
save_spectrogram_image(a) ==
    LET Y      == CroppedTransform(a)
        raises == SaveRaises(a)
    IN  [raised   |-> raises,
         first    |-> Y.first,
         rows     |-> Y.rows,
         clim     |-> IF raises THEN << >>
                      ELSE <<ResolveClim(a.clim_lo), ResolveClim(a.clim_hi)>>,
         size     |-> IF raises THEN <<0, 0>> ELSE FigurePixels(a.img_size, a.dpi),
         save_path |-> SavePath(a.output_path, a.image_name)]

(***************************************************************************)
(* create_storage_for_images.  A directory is [exists, entries]; a missing *)
(* directory has no entries.                                               *)
(***************************************************************************)
AbsentDir == [exists |-> FALSE, entries |-> {}]

EmptyDir == [exists |-> TRUE, entries |-> {}]

\* shutil.rmtree(d): the directory and everything under it are gone.
rmtree(d) == AbsentDir

\* os.makedirs(d), called on a path that does not exist.
makedirs(d) == [exists |-> TRUE, entries |-> d.entries]

\* The directory made if missing and otherwise left as it is, as
\* os.makedirs(d, exist_ok=True) alone would do.
create_storage_keeping(d) == [exists |-> TRUE, entries |-> d.entries]

\* if os.path.exists(d): shutil.rmtree(d); then os.makedirs(d)

create_storage_for_images(d) == makedirs(IF d.exists THEN rmtree(d) ELSE d)

(***************************************************************************)
(* get_all_wavfiles and the rendering loop of cell 8.  An input file is    *)
(* [dir, name, ext]: dir is "" for a file directly in the class directory  *)
(* and "sub" for one in a subdirectory of it.                              *)
(***************************************************************************)
endswith_wav(f) == f.ext = "wav"

\* The .wav files directly in the class directory, as os.listdir would
\* find them.
get_top_level_wavfiles(files) == {f \in files : endswith_wav(f) /\ f.dir = ""}

\* os.walk visits the class directory and every directory below it.

get_all_wavfiles(files) == {f \in files : endswith_wav(f)}

\* The defaults in the signature of save_spectrogram_image.
SignatureDefaults ==
    [sampling_rate |-> 48000, n_fft |-> 512, dpi |-> 96, max_freq |-> 22000,
     min_freq |-> 3000, img_size |-> <<413, 202>>, ref |-> "np.max",
     clim_lo |-> "np.mean", clim_hi |-> "0"]

\* The call in cell 8: ten positional arguments, bound to the first ten
\* parameters; the remaining parameters keep their defaults.
DriverCall(c, clip_path, curr_output_dir, n) ==
    [input_path |-> clip_path, output_path |-> curr_output_dir, image_name |-> n,
     sampling_rate |-> c.SAMPLING_RATE, n_fft |-> c.FFT_NUM, dpi |-> c.DPI,
     max_freq |-> c.MAX_FREQ, min_freq |-> c.MIN_FREQ, img_size |-> c.IMAGE_SIZE,
     ref |-> c.REF,
     clim_lo |-> SignatureDefaults.clim_lo, clim_hi |-> SignatureDefaults.clim_hi]

\* The counter left as it is.
NextCountStuck(n) == n

\* count += 1

NextCount(n) == n + 1

(***************************************************************************)
(* generate_training_and_testing_datasets.  A ratio is <<p, q>>, the       *)
(* Python literal p/q.                                                     *)
(***************************************************************************)
\* int(n * (1 - train_test_ratio)), without np.round.
TestCountTruncated(n, r) == FInt(FMulInt(FOneMinus(FDiv(r[1], r[2])), n))

\* int(np.round(n * (1 - train_test_ratio))), in doubles.

TestCount(n, r) == FRint(FMulInt(FOneMinus(FDiv(r[1], r[2])), n))

\* A file written into a directory replaces the file of that name.
\* shutil.move of the files `chosen' into a directory: a file already there
\* under the same name is replaced.
PutFile(entries, f) == {g \in entries : g.name # f.name} \cup {f}

MoveInto(entries, chosen) ==
    {g \in entries : \A f \in chosen : f.name # g.name} \cup chosen

(***************************************************************************)
(* State.  `call', `ret', `disk', `before' are one call of                 *)
(* save_spectrogram_image on its own; `store' is one directory under       *)
(* repeated calls of create_storage_for_images, `pre' what it was before   *)
(* the latest call and `post' what each call left.                         *)
(***************************************************************************)
VARIABLES call, ret, disk, before, store, pre, post,
          cfg, wav, img, test, pc, last, run, count, sp, todo, used,
          written, clobbered, resets, early,
          ratio, dirs, test_counter, k, src0, dst0, moved, failedAt

savevars == <<call, ret, disk, before>>

storevars == <<store, pre, post>>

\* Cell 8: the configuration in force, the input clips, the image and test
\* directories, the cell being run and how the last one ended, the counter,
\* the loop position, the clips the generator has yet to yield, the arguments
\* the latest render call used, and what this run wrote and reset.
rendervars == <<count, sp, todo, used, written, clobbered, resets, early>>

fsvars == <<wav, img, test>>

\* Cell 12: the ratio passed, the class directories found, the counts to
\* move, the loop position, the directories as they were when the call
\* began, the files moved per class and the class whose split raised.
splitvars == <<ratio, dirs, test_counter, k, src0, dst0, moved, failedAt>>

vars == <<savevars, storevars, cfg, run, rendervars, fsvars, pc, last, splitvars>>

None == [none |-> TRUE]

\* The generator of the inner loop before the loop head has made it.
NotStarted == [open |-> FALSE, clips |-> {}]

IdleSave == call = None /\ ret = None /\ disk = {} /\ before = {}

IdleStore == store = AbsentDir /\ pre = None /\ post = << >>

Classes == {SPECIES[i] : i \in 1..Len(SPECIES)}

NoFiles == [s \in Classes |-> {}]

IdleRender ==
    /\ count = 0 /\ sp = 1 /\ todo = NotStarted /\ used = None
    /\ written = {} /\ clobbered = FALSE
    /\ resets = [s \in Classes |-> 0] /\ early = FALSE

IdleSplit ==
    /\ ratio = <<0, 1>> /\ dirs = << >> /\ test_counter = << >> /\ k = 1
    /\ src0 = NoFiles /\ dst0 = NoFiles /\ moved = NoFiles /\ failedAt = "none"

\* What a cell leaves of the cell run before it: nothing.
ClearRender ==
    /\ count' = 0 /\ sp' = 1 /\ todo' = NotStarted /\ used' = None
    /\ written' = {} /\ clobbered' = FALSE
    /\ resets' = [s \in Classes |-> 0] /\ early' = FALSE

ClearSplit ==
    /\ ratio' = <<0, 1>> /\ dirs' = << >> /\ test_counter' = << >> /\ k' = 1
    /\ src0' = NoFiles /\ dst0' = NoFiles /\ moved' = NoFiles /\ failedAt' = "none"

IdlePipeline ==
    /\ IdleRender /\ IdleSplit /\ run = 0 /\ cfg = Cell4
    /\ wav = NoFiles
    /\ img = [s \in Classes |-> AbsentDir] /\ test = [s \in Classes |-> AbsentDir]
    /\ pc = "idle" /\ last = "none"

(***************************************************************************)
(* SpecSave: one call of save_spectrogram_image.                           *)
(***************************************************************************)
\* Arguments a caller can pass to save_spectrogram_image.
SaveArgs ==
    [input_path : {"clip.wav"}, output_path : {"out"}, image_name : {0},
     sampling_rate : {SAMPLING_RATE, 44100}, n_fft : {FFT_NUM, 256},
     dpi : {72, 93, DPI, 144},
     max_freq : {0, 3000, MAX_FREQ, 30000, 40000},
     min_freq : {-3000, 0, MIN_FREQ, 22000, 30000},
     img_size : {IMAGE_SIZE, <<224, 224>>},
     ref : {REF, "1.0"}, clim_lo : {CLIM_LO, "-60"}, clim_hi : {CLIM_HI}]

\* An image file: where it is and what was drawn.
Image(r) == [path |-> r.save_path, size |-> r.size, first |-> r.first, rows |-> r.rows]

\* fig.savefig(save_path) replaces any file already at save_path.
WriteFile(files, f) == {g \in files : g.path # f.path} \cup {f}

InitSave ==
    /\ call \in SaveArgs
    /\ ret = None
    /\ disk \in {{}, {[path |-> SavePath(call.output_path, call.image_name),
                       size |-> <<1, 1>>, first |-> 0, rows |-> 1]}}
    /\ before = disk
    /\ IdleStore
    /\ IdlePipeline

SaveImage ==
    /\ ret = None
    /\ ret' = save_spectrogram_image(call)
    /\ disk' = IF SaveRaises(call) THEN disk ELSE WriteFile(disk, Image(ret'))
    /\ UNCHANGED <<call, before, storevars, cfg, run, rendervars, fsvars, pc, last, splitvars>>

NextSave == SaveImage

SpecSave == InitSave /\ [][NextSave]_vars

(***************************************************************************)
(* SpecStore: a directory that other programs fill, and repeated calls of  *)
(* create_storage_for_images on it.                                        *)
(***************************************************************************)
MaxNames == 2

MaxResets == 3

\* What may lie in the directory: files, and a subdirectory with files.
PlainFiles == {[kind |-> "file", name |-> n] : n \in 1..MaxNames}

SubDirs == {[kind |-> "dir", name |-> 0, entries |-> fs] : fs \in SUBSET PlainFiles}

DirStates ==
    {AbsentDir} \cup
    {[exists |-> TRUE, entries |-> fs \cup ds] :
        fs \in SUBSET PlainFiles, ds \in {{}} \cup {{d} : d \in SubDirs}}

InitStore ==
    /\ store \in DirStates
    /\ pre = None
    /\ post = << >>
    /\ IdleSave
    /\ IdlePipeline

ResetStorage ==
    /\ Len(post) < MaxResets
    /\ store' = create_storage_for_images(store)
    /\ pre' = store
    /\ post' = Append(post, store')
    /\ UNCHANGED <<savevars, cfg, run, rendervars, fsvars, pc, last, splitvars>>

\* Another program puts a file or a subdirectory into the directory.
FillStorage ==
    /\ store.exists
    /\ Len(post) < MaxResets
    /\ \E e \in PlainFiles \cup SubDirs :
          store' = [store EXCEPT !.entries =
                       {g \in @ : g.name # e.name \/ g.kind # e.kind} \cup {e}]
    /\ UNCHANGED <<pre, post, savevars, cfg, run, rendervars, fsvars, pc, last, splitvars>>

NextStore == ResetStorage \/ FillStorage

SpecStore == InitStore /\ [][NextStore]_vars

(***************************************************************************)
(* Spec: the notebook.  Cell 8 renders every clip of every class; cell 12  *)
(* splits the images; either may be run again.  Cell 4 may be edited       *)
(* before cell 8 is run.                                                   *)
(***************************************************************************)
MaxClips == 2

MaxFiles == 10

MaxRuns == 2

\* Configuration blocks a user may run cell 8 with: the shipped one, one with
\* other contrast limits, one with an empty frequency band.
Configs ==
    {Cell4,
     [Cell4 EXCEPT !.CLIM_LO = "-60", !.CLIM_HI = "-10"],
     [Cell4 EXCEPT !.MIN_FREQ = MAX_FREQ]}

\* Cell 12's ratio, as shipped.
TRAIN_TEST_RATIO == <<7, 10>>

\* Ratios passed to the splitter: cell 12's 0.7, the default 0.6, a half and
\* the two ends of [0, 1].
Ratios == {TRAIN_TEST_RATIO, <<6, 10>>, <<1, 2>>, <<0, 1>>, <<1, 1>>}

\* Ratios cell 12 is run with: the shipped one, and 0 (every image is moved).
CellRatios == {TRAIN_TEST_RATIO, <<0, 1>>}

\* The splitter's counts for every directory size and ratio of the model.
TestCounts == [n \in 0..MaxFiles, r \in Ratios |-> TestCount(n, r)]

\* The clips of a class directory: n .wav files, every second one in a
\* subdirectory, beside a file that is no clip.
ClipFiles(n) ==
    {[dir |-> IF j % 2 = 0 THEN "sub" ELSE "", name |-> j, ext |-> "wav"] : j \in 1..n}
        \cup {[dir |-> "", name |-> 0, ext |-> "txt"]}

Init ==
    /\ IdleSave /\ IdleStore /\ IdleRender /\ IdleSplit
    /\ run = 0
    /\ cfg \in Configs
    /\ wav \in {[s \in Classes |-> ClipFiles(n[s])] : n \in [Classes -> 0..MaxClips]}
    /\ img = [s \in Classes |-> AbsentDir]
    /\ test = [s \in Classes |-> AbsentDir]
    /\ pc = "idle" /\ last = "none"

\* Cell 8 is started: count = 0, the loop at the first class.
RunCell8 ==
    /\ pc = "idle" /\ run < MaxRuns
    /\ pc' = "cell8" /\ run' = run + 1
    /\ ClearRender /\ ClearSplit
    /\ UNCHANGED <<savevars, storevars, cfg, fsvars, last>>

\* The head of the loop over SPECIES: the class's output directory is reset
\* and the generator over its clips is made.
StartSpecies ==
    /\ pc = "cell8" /\ ~todo.open
    /\ LET specie == SPECIES[sp]
       IN  /\ img' = [img EXCEPT ![specie] = create_storage_for_images(@)]
           /\ todo' = [open |-> TRUE, clips |-> get_all_wavfiles(wav[specie])]
           /\ resets' = [resets EXCEPT ![specie] = @ + 1]
    /\ UNCHANGED <<savevars, storevars, cfg, run, count, sp, used, written,
                   clobbered, early, wav, test, pc, last, splitvars>>

\* One clip of the inner loop: skipped if it is no .wav, else rendered under
\* the name `count'; an exception of the render ends the cell.
RenderClip ==
    /\ pc = "cell8" /\ todo.open
    /\ \E clip_path \in todo.clips :
          LET specie == SPECIES[sp]
              a == DriverCall(cfg, clip_path, specie, count)
              save_path == SavePath(a.output_path, a.image_name)
              f == [name |-> a.image_name, cls |-> specie, run |-> run]
          IN  IF ~endswith_wav(clip_path)
              THEN /\ todo' = [todo EXCEPT !.clips = @ \ {clip_path}]
                   /\ UNCHANGED <<img, count, used, written, clobbered, early, pc, last>>
              ELSE /\ used' = a
                   /\ IF SaveRaises(a)
                      THEN /\ pc' = "idle" /\ last' = "cell8_error"
                           /\ UNCHANGED <<img, count, todo, written, clobbered, early>>
                      ELSE /\ img' = [img EXCEPT ![save_path[1]].entries =
                                          PutFile(@, f)]
                           /\ written' = written \cup {[clip |-> clip_path, path |-> save_path]}
                           /\ clobbered' = (clobbered \/ \E w \in written : w.path = save_path)
                           /\ early' = (early \/ resets[specie] = 0)
                           /\ count' = NextCount(count)
                           /\ todo' = [todo EXCEPT !.clips = @ \ {clip_path}]
                           /\ UNCHANGED <<pc, last>>
    /\ UNCHANGED <<savevars, storevars, cfg, run, sp, resets, wav, test, splitvars>>

\* The generator is exhausted: on to the next class, or the cell is done.
EndSpecies ==
    /\ pc = "cell8" /\ todo.open /\ todo.clips = {}
    /\ IF sp < Len(SPECIES)
       THEN sp' = sp + 1 /\ todo' = NotStarted /\ UNCHANGED <<pc, last>>
       ELSE pc' = "idle" /\ last' = "rendered" /\ UNCHANGED <<sp, todo>>
    /\ UNCHANGED <<savevars, storevars, cfg, run, count, used, written, clobbered,
                   resets, early, fsvars, splitvars>>

\* next(os.walk(path_to_data)): the class directories under the image root,
\* which exists once a class directory does.
ListDirs == SelectSeq(SPECIES, LAMBDA s : img[s].exists)

\* generate_training_and_testing_datasets is called with one of `ratios',
\* after cell 8 has rendered: the class directories are listed, their files
\* counted and the counts to move computed.
RunSplit(ratios) ==
    /\ pc = "idle" /\ last = "rendered"
    /\ \E s \in Classes : img[s].exists
    /\ ratio' \in ratios
    /\ dirs' = ListDirs
    /\ test_counter' =
          [i \in 1..Len(ListDirs) |->
              TestCounts[Cardinality(img[ListDirs[i]].entries), ratio']]
    /\ k' = 1 /\ pc' = "cell12"
    /\ src0' = [s \in Classes |-> img[s].entries]
    /\ dst0' = [s \in Classes |-> test[s].entries]
    /\ moved' = NoFiles /\ failedAt' = "none"
    /\ ClearRender
    /\ UNCHANGED <<savevars, storevars, cfg, run, fsvars, last>>

RunCell12 == RunSplit(CellRatios)

\* One class of the transfer loop: the destination directory is made if it
\* is missing, the files are shuffled and the first test_counter[k] of them
\* moved; after the last class the call returns.
SplitClass ==
    /\ pc = "cell12" /\ k <= Len(dirs)
    /\ LET c == dirs[k]
       IN  \E chosen \in SUBSET img[c].entries :
              /\ Cardinality(chosen) = test_counter[k]
              /\ img' = [img EXCEPT ![c].entries = @ \ chosen]
              /\ test' = [test EXCEPT ![c] =
                             [exists |-> TRUE, entries |-> MoveInto(@.entries, chosen)]]
              /\ moved' = [moved EXCEPT ![c] = chosen]
    /\ k' = k + 1
    /\ IF k = Len(dirs)
       THEN pc' = "idle" /\ last' = "split"
       ELSE UNCHANGED <<pc, last>>
    /\ UNCHANGED <<savevars, storevars, cfg, run, rendervars, wav, ratio, dirs,
                   test_counter, src0, dst0, failedAt>>

\* os.makedirs or shutil.move raises for a class (its destination cannot be
\* written): nothing catches it, and the call ends there.
SplitClassRaises ==
    /\ pc = "cell12" /\ k <= Len(dirs)
    /\ failedAt' = dirs[k]
    /\ pc' = "idle" /\ last' = "cell12_error"
    /\ UNCHANGED <<savevars, storevars, cfg, run, rendervars, fsvars, ratio, dirs,
                   test_counter, k, src0, dst0, moved>>

Next ==
    \/ RunCell8 \/ StartSpecies \/ RenderClip \/ EndSpecies
    \/ RunCell12 \/ SplitClass \/ SplitClassRaises

Spec == Init /\ [][Next]_vars

(***************************************************************************)
(* SpecSplit: one call of generate_training_and_testing_datasets on image  *)
(* directories as cell 8 leaves them, the first class holding up to        *)
(* MaxFiles images.                                                        *)
(***************************************************************************)
\* The images cell 8 writes for a class of n clips when count stands at lo.
Rendered(s, lo, n) == {[name |-> lo + j, cls |-> s, run |-> 1] : j \in 0..(n - 1)}

InitSplit ==
    /\ IdleSave /\ IdleStore /\ IdleRender /\ IdleSplit
    /\ run = 1 /\ cfg = Cell4 /\ wav = NoFiles
    /\ \E n1 \in 0..MaxFiles, n2 \in 0..1 :
          img = [s \in Classes |->
                   [exists |-> TRUE,
                    entries |-> CASE s = SPECIES[1] -> Rendered(s, 0, n1)
                                  [] s = SPECIES[2] -> Rendered(s, n1, n2)
                                  [] OTHER -> Rendered(s, n1 + n2, 2)]]
    /\ test = [s \in Classes |-> AbsentDir]
    /\ pc = "idle" /\ last = "rendered"

CallSplit == RunSplit(Ratios)

NextSplit == CallSplit \/ SplitClass \/ SplitClassRaises

SpecSplit == InitSplit /\ [][NextSplit]_vars

(***************************************************************************)
(* Properties of save_spectrogram_image (SpecSave).                        *)
(***************************************************************************)
\* floor(freq / f_step) as the specification writes it.
FloorBin(freq, a) == (freq * a.n_fft) \div a.sampling_rate

Returned == ret # None

NonNegativeBand == call.min_freq >= 0 /\ call.max_freq >= 0

C4_ExactPixels ==
    (Returned /\ ~ret.raised) =>
        /\ ret.size = call.img_size
        /\ \A f \in disk : f.size = call.img_size

C6_Idempotent ==
    /\ \A i \in 1..Len(post) : post[i] = EmptyDir
    /\ (Len(post) > 0 /\ store.entries = {}) => store.exists

\* Two calls, the second on a directory into which a subdirectory with
\* files was put after the first.
C6_Witness ==
    /\ Len(post) >= 2
    /\ \E e \in pre.entries : e.kind = "dir" /\ e.entries # {}
    /\ post[1] = post[2]

(***************************************************************************)
(* Properties of the rendering loop (Spec).                                *)
(***************************************************************************)
\* The images of a class directory that the current run of cell 8 wrote.
RunImages(s) == {f \in img[s].entries : f.run = run}

AllRunImages == UNION {RunImages(s) : s \in Classes}

\* Cell 8 is running, or has ended and nothing was run since.
InCell8 == pc = "cell8" \/ (pc = "idle" /\ last \in {"rendered", "cell8_error"})

LoopEnded == pc = "idle" /\ last = "rendered"

\* C5: the images of the run are named 0 .. count-1, one image per name
\* over all class directories, and no render replaced an image of the run.
C5_CounterNames ==
    InCell8 =>
        /\ {f.name : f \in AllRunImages} = 0..(count - 1)
        /\ Cardinality(AllRunImages) = count
        /\ {w.path[2] : w \in written} = 0..(count - 1)
        /\ Cardinality(written) = count
        /\ ~clobbered

\* The second run of cell 8 has written images into two class directories.
C5_Witness ==
    /\ pc = "cell8" /\ run = 2 /\ count >= 3
    /\ \E s, t \in Classes : s # t /\ RunImages(s) # {} /\ RunImages(t) # {}

\* C7 as claimed: every option of the configuration block is the value the
\* render call uses.
C7_ConfigPassed ==
    used # None =>
        /\ used.sampling_rate = cfg.SAMPLING_RATE
        /\ used.n_fft = cfg.FFT_NUM
        /\ used.dpi = cfg.DPI
        /\ used.max_freq = cfg.MAX_FREQ
        /\ used.min_freq = cfg.MIN_FREQ
        /\ used.img_size = cfg.IMAGE_SIZE
        /\ used.ref = cfg.REF
        /\ used.clim_lo = cfg.CLIM_LO
        /\ used.clim_hi = cfg.CLIM_HI

\* C9: in a run of cell 8 every class directory is reset at most once, and
\* before any image of the run is written into it; the clips rendered so far
\* are as many as the counter says; and when the loop ends every class
\* directory was reset once and holds exactly one image per .wav clip under
\* the class's input directory.
C9_ResetBeforeRender ==
    /\ InCell8 =>
          /\ \A s \in Classes : resets[s] <= 1 /\ (RunImages(s) # {} => resets[s] = 1)
          /\ ~early
          /\ Cardinality(written) = count
    /\ LoopEnded =>
          \A s \in Classes :
             LET clips == {f \in wav[s] : f.ext = "wav"}
             IN  /\ resets[s] = 1
                 /\ img[s].exists
                 /\ Cardinality(img[s].entries) = Cardinality(clips)
                 /\ \A c \in clips :
                       /\ Cardinality({w \in written : w.clip = c /\ w.path[1] = s}) = 1
                       /\ \A w \in written :
                             (w.clip = c /\ w.path[1] = s) =>
                                 [name |-> w.path[2], cls |-> s, run |-> run]
                                     \in img[s].entries

\* The second run of cell 8 has ended, every class with two clips, one of
\* them in a subdirectory.
C9_Witness ==
    /\ LoopEnded /\ run = 2
    /\ \A s \in Classes :
          /\ Cardinality({f \in wav[s] : f.ext = "wav"}) = 2
          /\ Cardinality(RunImages(s)) = 2

(***************************************************************************)
(* Properties of generate_training_and_testing_datasets.                   *)
(***************************************************************************)
SplitDone == pc = "idle" /\ last = "split"

SplitRaised == pc = "idle" /\ last = "cell12_error"

\* m is an integer nearest to n * (1 - p/q).
Nearest(m, n, r) ==
    LET d == r[2] * m - n * (r[2] - r[1])
    IN  2 * (IF d < 0 THEN -d ELSE d) <= r[2]

\* C1 (SpecSplit): when the call returns, every class directory that held n
\* files has had round(n * (1 - r)) of them moved to the destination and
\* keeps the other n - round(n * (1 - r)), whichever files the shuffle put
\* first; 10 files at 0.7 give 3 and 7, and no files give none.
C1_MovedCount ==
    SplitDone =>
        \A i \in 1..Len(dirs) :
           LET c == dirs[i]
               n == Cardinality(src0[c])
               m == Cardinality(moved[c])
           IN  /\ Nearest(m, n, ratio)
               /\ moved[c] \subseteq test[c].entries
               /\ img[c].entries = src0[c] \ moved[c]
               /\ Cardinality(img[c].entries) = n - m
               /\ n = 0 => m = 0
               /\ (n = 10 /\ ratio = <<7, 10>>) => (m = 3 /\ n - m = 7)

\* The call has returned for a class of 10 files at ratio 0.7.
C1_Witness ==
    /\ SplitDone /\ ratio = <<7, 10>>
    /\ Cardinality(src0[SPECIES[1]]) = 10
    /\ Cardinality(test[SPECIES[1]].entries) = 3
    /\ Cardinality(img[SPECIES[1]].entries) = 7

\* C2 as claimed (Spec): the split creates and loses no file, and every
\* moved file keeps its name and its class.
C2_NoFileLost ==
    SplitDone =>
        \A c \in Classes :
           /\ Cardinality(img[c].entries) + Cardinality(test[c].entries)
                 = Cardinality(src0[c]) + Cardinality(dst0[c])
           /\ \A f \in moved[c] : f \in src0[c] /\ f \in test[c].entries /\ f.cls = c

\* C8 as claimed (SpecSplit): when the split of one class raises, every
\* other class still has its count of files moved.
C8_OtherClassesSplit ==
    SplitRaised =>
        \A i \in 1..Len(dirs) :
           dirs[i] # failedAt => Cardinality(moved[dirs[i]]) = test_counter[i]

=============================================================================
